---- MODULE Spec2Model ----
(***************************************************************************)
(* Model of the client-side indicator code of the stock analyzer           *)
(* dashboard: frontend/src/components/charts/TechnicalChart.tsx.           *)
(*                                                                         *)
(* The chart component receives the price bars of one ticker (prop data),  *)
(* and its effect computes EMA, Bollinger, RSI and MACD arrays from the    *)
(* closes and hands filtered points to the chart series.                   *)
(*                                                                         *)
(* Numbers.  The code computes with JavaScript numbers.  The model uses    *)
(* exact rationals <<n, d>> (d > 0, lowest terms), plus the three IEEE     *)
(* specials a division by zero would produce: <<1,0>> (Infinity),          *)
(* <<-1,0>> (-Infinity) and <<0,0>> (NaN).  Rounding of the last bit is    *)
(* not modelled.  Math.sqrt is exact on rational squares and truncated to  *)
(* 1/SqrtScale otherwise.                                                  *)
(*                                                                         *)
(* Windows.  The program's windows (EMA 20/50, RSI 14, Bollinger 20, MACD  *)
(* 12/26/9) make exact arithmetic outgrow TLC's integers, so the model     *)
(* runs the same code with shorter windows; each window is a definition    *)
(* below and the chart's literal cut-offs 25 and 33 are derived from them  *)
(* as the code's literals are (26-1 and 26-1+9-1).                         *)
(***************************************************************************)
EXTENDS Integers, Sequences, FiniteSets, TLC

\* ---- bounds of the model ----
MaxLen == 5

\* ---- windows (scaled stand-ins for the program's 20, 50, 14, 20, 12, 26, 9) ----
Ema20Period == 2
Ema50Period == 4
RsiPeriod == 2
BBPeriod == 2
FastPeriod == 2
SlowPeriod == 3
SignalPeriod == 2
BBMult == 2
\* the period computeBB is called with, used where the arithmetic is rounded
BBWindow == 20
\* bits of the significand of a number in the rounded arithmetic
Precision == 6
SqrtScale == 100

\* chart cut-offs: the literals 25 and 33 of the MACD sub-panel
MacdStart == SlowPeriod - 1
SignalStart == (SlowPeriod - 1) + (SignalPeriod - 1)

VARIABLES data, showRSI, showMACD,
          ema20, ema50, bb, rsiValues, macdData,
          candleS, ema20S, ema50S, bbUS, bbLS, rsiS, macdLine, signalLine, histS

vars == <<data, showRSI, showMACD, ema20, ema50, bb, rsiValues, macdData,
          candleS, ema20S, ema50S, bbUS, bbLS, rsiS, macdLine, signalLine, histS>>

\* ---- state of useScreenerScan / useAsyncTask on the scanner page ----
\* (frontend/src/lib/hooks/useScreener.ts, frontend/src/app/scanner/page.tsx)
VARIABLES mounted, params, paramsRef, taskId, restored, sessionStorage,
          inflight, tasks, queryData, queryFailed, pollTimer, startTimers

taskVars == <<mounted, params, paramsRef, taskId, restored, sessionStorage,
              inflight, tasks, queryData, queryFailed, pollTimer, startTimers>>

\* ---- state of the technical page (TechnicalPage) ----
VARIABLES stocks, selectedTicker, techQueries

pageVars == <<stocks, selectedTicker, techQueries>>

\* ---- state of the confluence ranker ----
VARIABLES aligned, ranked

rankVars == <<aligned, ranked>>

\* ---- a close series handed to computeBB, and the bands it returned ----
VARIABLES candles, bands

bandVars == <<candles, bands>>

allVars == <<vars, taskVars, pageVars, rankVars, bandVars>>

\* ---------------------------------------------------------------------
\* JavaScript numbers as rationals
\* ---------------------------------------------------------------------
Abs(x) == IF x < 0 THEN -x ELSE x
Sgn(x) == IF x < 0 THEN -1 ELSE IF x > 0 THEN 1 ELSE 0

RECURSIVE Gcd(_, _)
Gcd(a, b) == IF b = 0 THEN a ELSE Gcd(b, a % b)

Norm(n, d) ==
    IF d = 0 THEN <<Sgn(n), 0>>
    ELSE LET g == Gcd(Abs(n), Abs(d))
             s == IF d < 0 THEN -1 ELSE 1
         IN  <<(s * n) \div g, (s * d) \div g>>

R(n) == <<n, 1>>
Zero == <<0, 1>>
One == <<1, 1>>
Hundred == <<100, 1>>
NaN == <<0, 0>>

IsFinite(v) == v[2] > 0

RAdd(a, b) ==
    IF a[2] = 0 /\ b[2] = 0
    THEN (IF a[1] = b[1] THEN a ELSE NaN)
    ELSE Norm(a[1] * b[2] + b[1] * a[2], a[2] * b[2])
RNeg(a) == <<-a[1], a[2]>>
RSub(a, b) == RAdd(a, RNeg(b))
RMul(a, b) == Norm(a[1] * b[1], a[2] * b[2])
\* a / b: x/0 is +-Infinity, 0/0 is NaN, x/Infinity is 0
RDiv(a, b) == Norm(a[1] * b[2] * (IF b[1] < 0 THEN -1 ELSE 1), a[2] * Abs(b[1]))
RAbs(a) == <<Abs(a[1]), a[2]>>
\* a > 0, a >= 0 (false on NaN)
RPos(a) == a[1] > 0
RNonNeg(a) == a[1] > 0 \/ (a[1] = 0 /\ a[2] > 0)
RNegative(a) == a[1] < 0
\* a < b, a <= b on finite numbers
RLt(a, b) == a[1] * b[2] < b[1] * a[2]
RLe(a, b) == a[1] * b[2] <= b[1] * a[2]
\* JavaScript truthiness of a number: neither 0 nor NaN
Truthy(v) == v[1] # 0
\* v || 0
OrZero(v) == IF Truthy(v) THEN v ELSE Zero

RECURSIVE ISqrtIn(_, _, _)
ISqrtIn(x, lo, hi) ==
    IF lo >= hi THEN lo
    ELSE LET mid == (lo + hi + 1) \div 2
         IN  IF mid * mid <= x THEN ISqrtIn(x, mid, hi) ELSE ISqrtIn(x, lo, mid - 1)
ISqrt(x) == ISqrtIn(x, 0, IF x < 46340 THEN x ELSE 46340)

\* Math.sqrt
RSqrt(a) ==
    IF a[2] = 0 THEN (IF a[1] = 1 THEN a ELSE NaN)
    ELSE IF a[1] < 0 THEN NaN
    ELSE LET rn == ISqrt(a[1])
             rd == ISqrt(a[2])
         IN  IF rn * rn = a[1] /\ rd * rd = a[2] THEN <<rn, rd>>
             ELSE Norm(ISqrt((a[1] * SqrtScale * SqrtScale) \div a[2]), SqrtScale)

\* arrays are indexed from 0 in the code
At(s, i) == s[i + 1]
Idx(s) == 0 .. (Len(s) - 1)

RECURSIVE SumTo(_, _, _)
\* s[lo] + ... + s[hi] (0-based, inclusive)
SumTo(s, lo, hi) == IF hi < lo THEN Zero ELSE RAdd(SumTo(s, lo, hi - 1), At(s, hi))

\* ---------------------------------------------------------------------
\* The indicator functions
\* ---------------------------------------------------------------------
\* EmaStep seeded with the close itself instead of the SMA over the window
EmaStepNoSma(closes, period, i, ema) ==
    IF i < period - 1 THEN Zero
    ELSE IF i = period - 1
         THEN At(closes, i)
         ELSE LET k == RDiv(R(2), R(period + 1))
              IN  RAdd(RMul(At(closes, i), k), RMul(ema, RSub(One, k)))

\* the value computeEMA pushes at index i, given the ema variable left by index i-1
EmaStep(closes, period, i, ema) ==
    IF i < period - 1 THEN Zero
    ELSE IF i = period - 1
         THEN RDiv(SumTo(closes, i - period + 1, i), R(period))
         ELSE LET k == RDiv(R(2), R(period + 1))
              IN  RAdd(RMul(At(closes, i), k), RMul(ema, RSub(One, k)))

RECURSIVE EmaLoop(_, _, _)
\* result after the loop of computeEMA has processed indices 0 .. n-1
EmaLoop(closes, period, n) ==
    IF n = 0 THEN <<>>
    ELSE LET result == EmaLoop(closes, period, n - 1)
             ema == IF n = 1 THEN Zero ELSE result[n - 1]
         IN  Append(result, EmaStep(closes, period, n - 1, ema))

computeEMA(closes, period) == EmaLoop(closes, period, Len(closes))

\* closes[i] - closes[i-1]
Change(closes, i) == RSub(At(closes, i), At(closes, i - 1))
Gain(closes, i) == IF RPos(Change(closes, i)) THEN Change(closes, i) ELSE Zero
Loss(closes, i) == IF RNegative(Change(closes, i)) THEN RAbs(Change(closes, i)) ELSE Zero

RECURSIVE FirstSum(_, _, _)
\* the first loop of computeRSI after i iterations: <<avgGain, avgLoss>> before the division
FirstSum(closes, period, i) ==
    IF i = 0 THEN <<Zero, Zero>>
    ELSE LET prev == FirstSum(closes, period, i - 1)
             change == Change(closes, i)
         IN  IF RPos(change) THEN <<RAdd(prev[1], change), prev[2]>>
             ELSE <<prev[1], RAdd(prev[2], RAbs(change))>>

\* avgGain /= period; avgLoss /= period
FirstAvg(closes, period) ==
    LET s == FirstSum(closes, period, period)
    IN  <<RDiv(s[1], R(period)), RDiv(s[2], R(period))>>

\* NextAvg weighting the previous average by period instead of period - 1
NextAvgFullWeight(closes, period, i, avg) ==
    <<RDiv(RAdd(RMul(avg[1], R(period)), Gain(closes, i)), R(period)),
      RDiv(RAdd(RMul(avg[2], R(period)), Loss(closes, i)), R(period))>>

\* the Wilder update of the second loop at index i
NextAvg(closes, period, i, avg) ==
    <<RDiv(RAdd(RMul(avg[1], R(period - 1)), Gain(closes, i)), R(period)),
      RDiv(RAdd(RMul(avg[2], R(period - 1)), Loss(closes, i)), R(period))>>

\* RsiValue without the "1 +" in the denominator
RsiValueNoOne(avgGain, avgLoss) ==
    IF avgLoss = Zero THEN Hundred
    ELSE RSub(Hundred, RDiv(Hundred, RDiv(avgGain, avgLoss)))

\* avgLoss === 0 ? 100 : 100 - 100 / (1 + avgGain / avgLoss)
RsiValue(avgGain, avgLoss) ==
    IF avgLoss = Zero THEN Hundred
    ELSE RSub(Hundred, RDiv(Hundred, RAdd(One, RDiv(avgGain, avgLoss))))

RECURSIVE RsiLoop(_, _, _)
\* [result, avg] after computeRSI has written result[period .. i]
RsiLoop(closes, period, i) ==
    IF i = period
    THEN LET avg == FirstAvg(closes, period)
         IN  [result |-> [n \in 1 .. Len(closes) |->
                            IF n - 1 = period THEN RsiValue(avg[1], avg[2]) ELSE Zero],
              avg |-> avg]
    ELSE LET prev == RsiLoop(closes, period, i - 1)
             avg == NextAvg(closes, period, i, prev.avg)
         IN  [result |-> [prev.result EXCEPT ![i + 1] = RsiValue(avg[1], avg[2])],
              avg |-> avg]

\* computeRSI returning an empty array on the early return
computeRSIEmptyWhenShort(closes, period) ==
    IF Len(closes) < period + 1
    THEN <<>>
    ELSE RsiLoop(closes, period, Len(closes) - 1).result

computeRSI(closes, period) ==
    IF Len(closes) < period + 1
    THEN [n \in 1 .. Len(closes) |-> Zero]
    ELSE RsiLoop(closes, period, Len(closes) - 1).result

\* ema12[i] && ema26[i] ? ema12[i] - ema26[i] : 0
MacdLine(ema12, ema26) ==
    [n \in 1 .. Len(ema12) |->
        IF Truthy(ema12[n]) /\ Truthy(ema26[n]) THEN RSub(ema12[n], ema26[n]) ELSE Zero]

\* computeEMA(macd.map((v) => v || 0), 9)
SignalLine(macd) ==
    computeEMA([n \in 1 .. Len(macd) |-> OrZero(macd[n])], SignalPeriod)

\* Histogram that subtracts the signal only where the chart draws it
HistogramSinceSignal(macd, signal) ==
    [n \in 1 .. Len(macd) |->
        IF n - 1 >= SignalStart THEN RSub(macd[n], OrZero(signal[n])) ELSE macd[n]]

\* macd.map((v, i) => v - (signal[i] || 0))
Histogram(macd, signal) ==
    [n \in 1 .. Len(macd) |-> RSub(macd[n], OrZero(signal[n]))]

computeMACD(closes) ==
    LET ema12 == computeEMA(closes, FastPeriod)
        ema26 == computeEMA(closes, SlowPeriod)
        macd == MacdLine(ema12, ema26)
        signal == SignalLine(macd)
    IN  [macd |-> macd, signal |-> signal, histogram |-> Histogram(macd, signal)]

RECURSIVE SqDevTo(_, _, _, _)
\* slice.reduce((a, b) => a + (b - mean) ** 2, 0) over closes[lo..hi]
SqDevTo(closes, mean, lo, hi) ==
    IF hi < lo THEN Zero
    ELSE LET dev == RSub(At(closes, hi), mean)
         IN  RAdd(SqDevTo(closes, mean, lo, hi - 1), RMul(dev, dev))

\* the <<upper, lower>> pair computeBB pushes at index i
BBAt(closes, period, mult, i) ==
    IF i < period - 1 THEN <<Zero, Zero>>
    ELSE LET mean == RDiv(SumTo(closes, i - period + 1, i), R(period))
             variance == RDiv(SqDevTo(closes, mean, i - period + 1, i), R(period))
             std == RSqrt(variance)
         IN  <<RAdd(mean, RMul(R(mult), std)), RSub(mean, RMul(R(mult), std))>>

computeBB(closes, period, mult) ==
    [upper |-> [n \in 1 .. Len(closes) |-> BBAt(closes, period, mult, n - 1)[1]],
     lower |-> [n \in 1 .. Len(closes) |-> BBAt(closes, period, mult, n - 1)[2]]]

\* ---------------------------------------------------------------------
\* computeBB in rounded arithmetic
\* ---------------------------------------------------------------------
\* A JavaScript number is a binary floating-point number: every +, -, *, /
\* and Math.sqrt returns the representable number nearest to the exact
\* result, ties going to the even significand.  The operators below are the
\* same arithmetic with a significand of Precision bits instead of 53 and
\* an unbounded exponent; the exact operators above are what they round.

\* 2 ^ e for any integer e
Pow2(e) == IF e >= 0 THEN <<2 ^ e, 1>> ELSE <<1, 2 ^ (-e)>>

\* the e with 2 ^ e <= n < 2 ^ (e + 1), for an integer n >= 1
FloorLog2(n) == CHOOSE e \in 0 .. 29 : 2 ^ e <= n /\ n < 2 * (2 ^ e)
\* the least k with n <= 2 ^ k, for an integer n >= 1
CeilLog2(n) == CHOOSE k \in 0 .. 30 : n <= 2 ^ k /\ (k = 0 \/ 2 ^ (k - 1) < n)

\* the binary exponent of a > 0: 2 ^ e <= a < 2 ^ (e + 1)
Exponent(a) ==
    IF a[1] >= a[2] THEN FloorLog2(a[1] \div a[2])
    ELSE -CeilLog2((a[1] + a[2] - 1) \div a[1])

\* the integer nearest to a >= 0, ties going to the even one
RoundHalfEven(a) ==
    LET q == a[1] \div a[2]
        r == a[1] % a[2]
    IN  IF 2 * r > a[2] \/ (2 * r = a[2] /\ q % 2 = 1) THEN q + 1 ELSE q

\* a > 0 rounded to Precision significant bits: the significand is a scaled
\* into [2 ^ (Precision - 1), 2 ^ Precision) and rounded to an integer
FlPos(a) ==
    LET ulp == Pow2(Exponent(a) - (Precision - 1))
    IN  RMul(R(RoundHalfEven(RDiv(a, ulp))), ulp)

\* the representable number nearest to a
Fl(a) ==
    IF a[2] = 0 \/ a[1] = 0 THEN a
    ELSE IF a[1] < 0 THEN RNeg(FlPos(RNeg(a)))
    ELSE FlPos(a)

FlAdd(a, b) == Fl(RAdd(a, b))
FlSub(a, b) == Fl(RSub(a, b))
FlMul(a, b) == Fl(RMul(a, b))
FlDiv(a, b) == Fl(RDiv(a, b))

\* the square root of a > 0 rounded to Precision significant bits: with e
\* the exponent of the root, a is scaled into [4 ^ (Precision - 1),
\* 4 ^ Precision) and the root m of its integer part is rounded up when a
\* lies above (m + 1/2) ^ 2
FlSqrtPos(a) ==
    LET e == (Exponent(a) - (Exponent(a) % 2)) \div 2
        ulp == Pow2(e - (Precision - 1))
        scaled == RDiv(a, RMul(ulp, ulp))
        m == ISqrt(scaled[1] \div scaled[2])
        half == (2 * m + 1) * (2 * m + 1) * scaled[2]
    IN  IF half < 4 * scaled[1] \/ (half = 4 * scaled[1] /\ m % 2 = 1)
        THEN RMul(R(m + 1), ulp) ELSE RMul(R(m), ulp)

\* Math.sqrt
FlSqrt(a) ==
    IF a[2] = 0 THEN (IF a[1] = 1 THEN a ELSE NaN)
    ELSE IF a[1] < 0 THEN NaN
    ELSE IF a[1] = 0 THEN a
    ELSE FlSqrtPos(a)

\* In the three definitions below a value that the code holds in a variable
\* (the accumulator of a reduce, mean, std) is bound by \in {..}, so that it
\* is computed once, before it is used.

RECURSIVE FlSumTo(_, _, _)
\* slice.reduce((a, b) => a + b, 0) over closes[lo..hi]
FlSumTo(closes, lo, hi) ==
    IF hi < lo THEN Zero
    ELSE CHOOSE next \in {FlAdd(a, At(closes, hi)) :
                             a \in {FlSumTo(closes, lo, hi - 1)}} : TRUE

RECURSIVE FlSqDevTo(_, _, _, _)
\* slice.reduce((a, b) => a + (b - mean) ** 2, 0) over closes[lo..hi]
FlSqDevTo(closes, mean, lo, hi) ==
    IF hi < lo THEN Zero
    ELSE CHOOSE next \in {FlAdd(a, FlMul(FlSub(At(closes, hi), mean),
                                         FlSub(At(closes, hi), mean))) :
                             a \in {FlSqDevTo(closes, mean, lo, hi - 1)}} : TRUE

\* upper.push(mean + mult * std); lower.push(mean - mult * std)
FlBandsAround(mean, std, mult) ==
    <<FlAdd(mean, FlMul(R(mult), std)), FlSub(mean, FlMul(R(mult), std))>>

\* Math.sqrt(variance) of closes[lo..hi] around mean
FlStd(closes, period, mean, lo, hi) ==
    CHOOSE std \in {FlSqrt(variance) :
                      variance \in {FlDiv(FlSqDevTo(closes, mean, lo, hi), R(period))}} : TRUE

\* the <<upper, lower>> pair computeBB pushes at index i
FlBBAt(closes, period, mult, i) ==
    IF i < period - 1 THEN <<Zero, Zero>>
    ELSE CHOOSE pair \in {FlBandsAround(mean, FlStd(closes, period, mean, i - period + 1, i), mult) :
                             mean \in {FlDiv(FlSumTo(closes, i - period + 1, i), R(period))}} : TRUE

computeBBRounded(closes, period, mult) ==
    [upper |-> [n \in 1 .. Len(closes) |-> FlBBAt(closes, period, mult, n - 1)[1]],
     lower |-> [n \in 1 .. Len(closes) |-> FlBBAt(closes, period, mult, n - 1)[2]]]

\* ---------------------------------------------------------------------
\* The chart component
\* ---------------------------------------------------------------------
\* closing prices are positive; four of them allow a strictly rising run of
\* RsiPeriod + 2 bars
Prices == 1 .. 4

\* data.map((d) => d.close)
Closes(d) == [n \in 1 .. Len(d) |-> R(d[n])]

RECURSIVE PointsFrom(_, _, _)
\* data.map((d, i) => ({time, value: vals[i]})).filter(keep), from index i on;
\* a bar's time is its index
PointsFrom(vals, keep, i) ==
    IF i >= Len(vals) THEN <<>>
    ELSE IF keep[i + 1]
         THEN <<[time |-> i, value |-> At(vals, i)]>> \o PointsFrom(vals, keep, i + 1)
         ELSE PointsFrom(vals, keep, i + 1)

\* .filter((d) => d.value)
TruthyPoints(vals) == PointsFrom(vals, [n \in 1 .. Len(vals) |-> Truthy(vals[n])], 0)
\* .filter((_, i) => rsiValues[i] > 0)
PositivePoints(vals) == PointsFrom(vals, [n \in 1 .. Len(vals) |-> RPos(vals[n])], 0)
\* .filter((_, i) => i >= start)
PointsSince(vals, start) == PointsFrom(vals, [n \in 1 .. Len(vals) |-> n - 1 >= start], 0)

HistColor(v) == IF RNonNeg(v) THEN "green" ELSE "red"
\* the histogram series: value, colour by sign, from index 25 on
HistPoints(hist) ==
    LET pts == PointsSince(hist, MacdStart)
    IN  [n \in 1 .. Len(pts) |->
            [time |-> pts[n].time, value |-> pts[n].value, color |-> HistColor(pts[n].value)]]

NoMacd == [macd |-> <<>>, signal |-> <<>>, histogram |-> <<>>]
NoBB == [upper |-> <<>>, lower |-> <<>>]

\* the effect of TechnicalChart for props (d, rsi, macd); the previous effect's
\* cleanup has removed every chart before it runs
Effect(d, rsi, macd) ==
    IF Len(d) = 0
    THEN /\ ema20' = <<>> /\ ema50' = <<>> /\ bb' = NoBB
         /\ rsiValues' = <<>> /\ macdData' = NoMacd
         /\ candleS' = <<>> /\ ema20S' = <<>> /\ ema50S' = <<>>
         /\ bbUS' = <<>> /\ bbLS' = <<>> /\ rsiS' = <<>>
         /\ macdLine' = <<>> /\ signalLine' = <<>> /\ histS' = <<>>
    ELSE /\ ema20' = computeEMA(Closes(d), Ema20Period)
         /\ ema50' = computeEMA(Closes(d), Ema50Period)
         /\ bb' = computeBB(Closes(d), BBPeriod, BBMult)
         /\ rsiValues' = (IF rsi THEN computeRSI(Closes(d), RsiPeriod) ELSE <<>>)
         /\ macdData' = (IF macd THEN computeMACD(Closes(d)) ELSE NoMacd)
         /\ candleS' = PointsSince(Closes(d), 0)
         /\ ema20S' = (IF Len(ema20') = Len(d) THEN TruthyPoints(ema20') ELSE <<>>)
         /\ ema50S' = (IF Len(ema50') = Len(d) THEN TruthyPoints(ema50') ELSE <<>>)
         /\ bbUS' = (IF Len(bb'.upper) = Len(d) THEN TruthyPoints(bb'.upper) ELSE <<>>)
         /\ bbLS' = (IF Len(bb'.upper) = Len(d) THEN TruthyPoints(bb'.lower) ELSE <<>>)
         /\ rsiS' = PositivePoints(rsiValues')
         /\ macdLine' = PointsSince(macdData'.macd, MacdStart)
         /\ signalLine' = PointsSince(macdData'.signal, SignalStart)
         /\ histS' = HistPoints(macdData'.histogram)

\* ---------------------------------------------------------------------
\* Values of the other components, and their states before first use
\* ---------------------------------------------------------------------
\* start requests sent in one session
MaxTasks == 2

\* null: no task id (useState<string | null>), no result, no error
Null == 0
\* the ids the backend hands out: the n-th start request gets task id n
TaskIds == 1 .. MaxTasks

\* WATCHLISTS and QUICK_SCANS of the scanner page: one watchlist and two
\* strategies, so the params the selects and quick-scan buttons move between
\* differ in the strategy
Watchlists == {"NIFTY50"}
Strategies == {"oversold_reversal", "breakout"}
ParamsSet == [watchlist : Watchlists, strategy : Strategies, min_matches : {2}]
defaultParams == [watchlist |-> "NIFTY50", strategy |-> "oversold_reversal", min_matches |-> 2]

\* `${params.watchlist}:${params.strategy}:${params.min_matches}`
paramKey(p) == <<p.watchlist, p.strategy, p.min_matches>>
\* storageKey + ":" + paramKey, the key useScreenerScan hands to useAsyncTask
storageKey(p) == <<"task:screener">> \o paramKey(p)
StorageKeys == {storageKey(p) : p \in ParamsSet}

\* useAsyncTask's default poll interval, which useScreenerScan also passes
pollInterval == 2000

\* useQuery's data before any poll response for the key has arrived (undefined)
NoData == [status |-> "none", result |-> Null, error |-> Null]
\* no refetch scheduled
NoTimer == [id |-> Null, delay |-> 0]
\* sessionStorage with nothing stored: "task:screener:params" absent and no
\* "task:screener:<paramKey>" entry (getItem gives null)
EmptyStorage == [params |-> <<>>, task |-> [k \in StorageKeys |-> Null]]

\* the query cache without any task query
NoCache == [k \in {<<"task", n>> : n \in TaskIds} |-> NoData]

\* selectedTicker before any selection (null)
NoTicker == "(null)"
Tickers == {"TCS", "INFY", "SBIN"}
\* a query of useStockTechnicals that never ran
IdleQuery == [status |-> "pending", fetching |-> FALSE, success |-> FALSE, error |-> ""]

\* no ConfluenceSignal computed
NoSignal == [confluence_score |-> 0, aligned_signals |-> {}, signal_strength |-> ""]

\* the scanner page has not been opened in this session
TaskIdle ==
    /\ mounted = FALSE
    /\ params = defaultParams
    /\ paramsRef = defaultParams
    /\ taskId = Null /\ restored = Null
    /\ sessionStorage = EmptyStorage
    /\ inflight = {} /\ tasks = <<>>
    /\ queryData = NoCache /\ queryFailed = {}
    /\ pollTimer = NoTimer /\ startTimers = {}

\* the technical page before the mentioned stocks have loaded
PageIdle ==
    /\ stocks = <<>> /\ selectedTicker = NoTicker
    /\ techQueries = [t \in Tickers |-> IdleQuery]

\* the ranker before it has ranked anything
RankIdle == aligned = {} /\ ranked = NoSignal

\* the chart before any bar has arrived
ChartIdle ==
    /\ data = <<>> /\ showRSI = FALSE /\ showMACD = FALSE
    /\ ema20 = <<>> /\ ema50 = <<>> /\ bb = NoBB
    /\ rsiValues = <<>> /\ macdData = NoMacd
    /\ candleS = <<>> /\ ema20S = <<>> /\ ema50S = <<>>
    /\ bbUS = <<>> /\ bbLS = <<>> /\ rsiS = <<>>
    /\ macdLine = <<>> /\ signalLine = <<>> /\ histS = <<>>

\* computeBB has not been handed a series
BandsIdle == candles = <<>> /\ bands = NoBB

Init == ChartIdle /\ TaskIdle /\ PageIdle /\ RankIdle /\ BandsIdle

\* a further bar arrives: the data prop grows by one bar and the effect re-runs
AppendBar ==
    /\ Len(data) < MaxLen
    /\ \E c \in Prices :
          /\ data' = Append(data, c)
          /\ Effect(data', showRSI, showMACD)
    /\ UNCHANGED <<showRSI, showMACD, taskVars, pageVars, rankVars, bandVars>>

\* another ticker is selected: the data prop is empty until its bars arrive
ClearData ==
    /\ Len(data) > 0
    /\ data' = <<>>
    /\ Effect(data', showRSI, showMACD)
    /\ UNCHANGED <<showRSI, showMACD, taskVars, pageVars, rankVars, bandVars>>

ToggleRSI ==
    /\ showRSI' = ~showRSI
    /\ Effect(data, showRSI', showMACD)
    /\ UNCHANGED <<data, showMACD, taskVars, pageVars, rankVars, bandVars>>

ToggleMACD ==
    /\ showMACD' = ~showMACD
    /\ Effect(data, showRSI, showMACD')
    /\ UNCHANGED <<data, showRSI, taskVars, pageVars, rankVars, bandVars>>

Next == AppendBar \/ ClearData \/ ToggleRSI \/ ToggleMACD

Spec == Init /\ [][Next]_allVars

\* ---------------------------------------------------------------------
\* The task hook: useAsyncTask under useScreenerScan, on the scanner page
\* ---------------------------------------------------------------------
\* The page is mounted and unmounted by navigation; a reload of the tab also
\* empties the memory (React state, refs, timers, the query cache) and keeps
\* sessionStorage.  A start request is in flight from its fetch until its
\* promise settles; the backend numbers the tasks in the order the requests
\* were sent.  A poll is one step: request and response of the query
\* ["task", taskId], whose data the query cache keeps per key.

\* TaskResult.status
Statuses == {"running", "complete", "error", "not_found"}

\* the TaskResult the backend answers a poll of task n with: a result or an
\* error is that task's own
PollResponse(n, st) ==
    [status |-> st,
     result |-> IF st = "complete" THEN n ELSE Null,
     error |-> IF st = "error" THEN n ELSE Null]

\* restoreParams(storageKey + ":params", defaultParams)
restoreParams(store) ==
    IF store.params = <<>> THEN defaultParams ELSE store.params[1]

\* sessionStorage.getItem(storageKey)
getItem(store, key) == store.task[key]

SyncStorageRemoveOnly(store, key, id) ==
    IF id # Null THEN store ELSE [store EXCEPT !.task[key] = Null]
\* the effect that keeps sessionStorage in sync with taskId: setItem when a
\* task id is set, removeItem otherwise
SyncStorage(store, key, id) ==
    IF id # Null
    THEN [store EXCEPT !.task[key] = id]
    ELSE [store EXCEPT !.task[key] = Null]

\* the startFn useAsyncTask calls through startFnRef: it reads the params ref,
\* not the params state its closure was rendered with
startFnFromState(ref, state) == state
startFn(ref, state) == ref

\* queryKey: ["task", taskId]
queryKeyShared(id) == <<"task", 1>>
queryKey(id) == <<"task", id>>

\* useQuery's data for the current key (undefined while there is none)
taskData ==
    IF queryKey(taskId) \in DOMAIN queryData THEN queryData[queryKey(taskId)] ELSE NoData

\* refetchInterval: false (no refetch, 0 here) once data with a status other
\* than "running" is there
refetchIntervalAlways(d) == pollInterval
refetchInterval(d) ==
    IF d # NoData /\ d.status # "running" THEN 0 ELSE pollInterval

TimerAfterAnyData(n, d) == [id |-> n, delay |-> pollInterval]
\* the refetch timer of task n's query after data d
TimerAfter(n, d) ==
    IF refetchInterval(d) = 0 THEN NoTimer ELSE [id |-> n, delay |-> refetchInterval(d)]

\* the query once the hook observes key ["task", n]: disabled without a task
\* id, fetched at once without data, on its interval otherwise
ObserveQuery(n, cache) ==
    IF n = Null THEN NoTimer
    ELSE IF cache[queryKey(n)] = NoData THEN [id |-> n, delay |-> 0]
    ELSE TimerAfter(n, cache[queryKey(n)])

\* ---- what the hook returns ----
status ==
    IF taskData # NoData THEN taskData.status
    ELSE IF taskId # Null THEN "running" ELSE "idle"
result == taskData.result
error == taskData.error
isRunning == taskId # Null /\ taskData.status = "running"
isComplete == taskData.status = "complete"
isError == taskData.status = "error"

\* every variable of the other components
taskRest == <<vars, pageVars, rankVars, bandVars>>

\* a start request leaves: the backend creates the next task from the params
\* it carries; the response is awaited if the calling instance is mounted
SendStart(awaited, p) ==
    /\ tasks' = Append(tasks, p)
    /\ inflight' = IF awaited THEN inflight \cup {Len(tasks) + 1} ELSE inflight

\* room for one more start request, counting the deferred starts still to fire
CanSend == Len(tasks) + Cardinality(startTimers) < MaxTasks

\* a deferred start() of the mounted instance; once the instance is unmounted
\* the timer stays, with the value the instance's params ref holds from then on
LiveTimer == <<>>
Orphaned(timers, ref) == {IF t = <<>> THEN <<ref>> ELSE t : t \in timers}

\* the hook mounts: params and taskId come from sessionStorage; restored keeps
\* the initial state of taskId, the value the useState initializer read
MountHook(store, cache) ==
    /\ mounted' = TRUE
    /\ params' = restoreParams(store)
    /\ paramsRef' = params'
    /\ taskId' = getItem(store, storageKey(params'))
    /\ restored' = taskId'
    /\ sessionStorage' = SyncStorage(store, storageKey(params'), taskId')
    /\ pollTimer' = ObserveQuery(taskId', cache)

\* the user opens the scanner page
Mount ==
    /\ ~mounted
    /\ MountHook(sessionStorage, queryData)
    /\ UNCHANGED <<inflight, tasks, queryData, startTimers, queryFailed, taskRest>>

\* the user navigates away.  The variables of the instance keep its last
\* state, which nothing reads until the next mount replaces it; a response to
\* its start requests sets state of a component that is gone and is dropped
Unmount ==
    /\ mounted
    /\ mounted' = FALSE
    /\ pollTimer' = NoTimer
    /\ inflight' = {}
    /\ startTimers' = Orphaned(startTimers, paramsRef)
    /\ UNCHANGED <<params, paramsRef, taskId, restored, sessionStorage, tasks, queryData,
                   queryFailed, taskRest>>

\* the user reloads the tab on the scanner page: memory is lost,
\* sessionStorage is not
Reload ==
    /\ mounted
    /\ MountHook(sessionStorage, NoCache)
    /\ queryData' = NoCache /\ queryFailed' = {}
    /\ inflight' = {}
    /\ startTimers' = {}
    /\ UNCHANGED <<tasks, taskRest>>

\* updateParams(p), followed by the render with the new storageKey
UpdateParams(p) ==
    /\ paramsRef' = p
    /\ params' = p

\* a select of the page changes one field of the params; the sync effect
\* runs for the new storageKey
SetParams(p) ==
    /\ mounted
    /\ p # params
    /\ p.watchlist = params.watchlist \/ p.strategy = params.strategy
    /\ UpdateParams(p)
    /\ sessionStorage' =
           SyncStorage([sessionStorage EXCEPT !.params = <<p>>], storageKey(p), taskId)
    /\ UNCHANGED <<mounted, taskId, restored, inflight, tasks, queryData, pollTimer,
                   startTimers, queryFailed, taskRest>>

\* "Run Scan" where it calls restart(): setTaskId(null), then the request
Restart ==
    /\ mounted /\ ~isRunning /\ CanSend
    /\ taskId' = Null
    /\ sessionStorage' = SyncStorage(sessionStorage, storageKey(params), Null)
    /\ pollTimer' = NoTimer
    /\ SendStart(TRUE, startFn(paramsRef, params))
    /\ UNCHANGED <<mounted, params, paramsRef, restored, queryData, startTimers,
                   queryFailed, taskRest>>

\* "Run Scan" where it calls reset() and defers start() by setTimeout(.., 0)
HandleScan ==
    /\ mounted /\ ~isRunning /\ CanSend
    /\ LiveTimer \notin startTimers
    /\ taskId' = Null
    /\ sessionStorage' = SyncStorage(sessionStorage, storageKey(params), Null)
    /\ pollTimer' = NoTimer
    /\ startTimers' = startTimers \cup {LiveTimer}
    /\ UNCHANGED <<mounted, params, paramsRef, restored, inflight, tasks, queryData,
                   queryFailed, taskRest>>

\* a quick-scan button where it calls setParams and restart()
QuickScanRestart(q) ==
    /\ mounted /\ ~isRunning /\ CanSend
    /\ UpdateParams([params EXCEPT !.strategy = q])
    /\ taskId' = Null
    /\ sessionStorage' =
           SyncStorage([sessionStorage EXCEPT !.params = <<params'>>], storageKey(params'), Null)
    /\ pollTimer' = NoTimer
    /\ SendStart(TRUE, startFn(paramsRef', params))
    /\ UNCHANGED <<mounted, restored, queryData, startTimers, queryFailed, taskRest>>

\* a quick-scan button where it calls setParams, reset() and defers start()
QuickScanDeferred(q) ==
    /\ mounted /\ ~isRunning /\ CanSend
    /\ LiveTimer \notin startTimers
    /\ UpdateParams([params EXCEPT !.strategy = q])
    /\ taskId' = Null
    /\ sessionStorage' =
           SyncStorage([sessionStorage EXCEPT !.params = <<params'>>], storageKey(params'), Null)
    /\ pollTimer' = NoTimer
    /\ startTimers' = startTimers \cup {LiveTimer}
    /\ UNCHANGED <<mounted, restored, inflight, tasks, queryData, queryFailed, taskRest>>

\* a deferred start() runs: the request leaves with what startFnRef.current
\* reads then
TimerStart(t) ==
    /\ t \in startTimers
    /\ startTimers' = startTimers \ {t}
    /\ IF t = LiveTimer
       THEN SendStart(TRUE, startFn(paramsRef, params))
       ELSE SendStart(FALSE, startFn(t[1], t[1]))
    /\ UNCHANGED <<mounted, params, paramsRef, taskId, restored, sessionStorage,
                   queryData, pollTimer, queryFailed, taskRest>>

\* a start request's promise resolves: setTaskId(task_id), the render and the
\* sync effect
StartResponse(r) ==
    /\ r \in inflight
    /\ inflight' = inflight \ {r}
    /\ taskId' = r
    /\ sessionStorage' = SyncStorage(sessionStorage, storageKey(params), r)
    /\ pollTimer' = ObserveQuery(r, queryData)
    /\ UNCHANGED <<mounted, params, paramsRef, restored, tasks, queryData, startTimers,
                   queryFailed, taskRest>>

\* a start request fails (fetchAPI throws): setTaskId is never reached
StartFailure(r) ==
    /\ r \in inflight
    /\ inflight' = inflight \ {r}
    /\ UNCHANGED <<mounted, params, paramsRef, taskId, restored, sessionStorage, tasks,
                   queryData, pollTimer, startTimers, queryFailed, taskRest>>

\* the scheduled poll runs and the backend answers with status st
Poll(st) ==
    /\ mounted /\ pollTimer.id # Null
    /\ queryData' = [queryData EXCEPT ![queryKey(pollTimer.id)] = PollResponse(pollTimer.id, st)]
    /\ queryFailed' = queryFailed \ {pollTimer.id}
    /\ pollTimer' = TimerAfter(pollTimer.id, queryData'[queryKey(pollTimer.id)])
    /\ UNCHANGED <<mounted, params, paramsRef, taskId, restored, sessionStorage,
                   inflight, tasks, startTimers, taskRest>>

\* the scheduled poll runs and fails in transport (fetchAPI throws): the
\* query keeps its data and is in its error state until a fetch succeeds;
\* useAsyncTask reads neither error nor status of the query
PollFailure ==
    /\ mounted /\ pollTimer.id # Null
    /\ queryFailed' = queryFailed \cup {pollTimer.id}
    /\ pollTimer' = TimerAfter(pollTimer.id, queryData[queryKey(pollTimer.id)])
    /\ UNCHANGED <<mounted, params, paramsRef, taskId, restored, sessionStorage,
                   inflight, tasks, queryData, startTimers, taskRest>>

TaskInit == Init

TaskNext ==
    \/ Mount \/ Unmount \/ Reload
    \/ \E p \in ParamsSet : SetParams(p)
    \/ Restart \/ HandleScan
    \/ \E q \in Strategies : QuickScanRestart(q) \/ QuickScanDeferred(q)
    \/ \E t \in startTimers : TimerStart(t)
    \/ \E r \in inflight : StartResponse(r) \/ StartFailure(r)
    \/ \E st \in Statuses : Poll(st)
    \/ PollFailure

TaskSpec == TaskInit /\ [][TaskNext]_allVars

\* ---- the hook while the user neither resets nor restarts ----
\* The user starts one scan in the session and from then on presses neither
\* "Run Scan" nor a quick-scan button; the tab is not reloaded.  The refetch
\* timer of an observed query and a setTimeout(.., 0) do fire, so a poll that
\* is due and a deferred start are not postponed for ever; whether a poll is
\* answered, and with which status, is the backend's.
FirstScan == tasks = <<>> /\ startTimers = {}

\* a poll of the query is issued: it is answered, or it fails in transport
PollStep == (\E st \in Statuses : Poll(st)) \/ PollFailure

QuietNext ==
    \/ Mount \/ Unmount
    \/ \E p \in ParamsSet : SetParams(p)
    \/ FirstScan /\ Restart
    \/ FirstScan /\ HandleScan
    \/ \E q \in Strategies : FirstScan /\ QuickScanRestart(q)
    \/ \E q \in Strategies : FirstScan /\ QuickScanDeferred(q)
    \/ \E t \in startTimers : TimerStart(t)
    \/ \E r \in inflight : StartResponse(r) \/ StartFailure(r)
    \/ PollStep

QuietSpec ==
    /\ TaskInit /\ [][QuietNext]_allVars
    /\ WF_allVars(PollStep)
    /\ WF_allVars(\E t \in startTimers : TimerStart(t))

\* ---------------------------------------------------------------------
\* The technical page: TechnicalPage with useStockTechnicals
\* ---------------------------------------------------------------------
\* The page lists the mentioned stocks, selects the first one when the list
\* arrives, and shows the technicals of the selected ticker.  Each ticker has
\* its own query ["stockTechnicals", ticker, days]; a query is pending until
\* data arrives, is "success" with data (whatever data.success says) and
\* "error" when fetchAPI threw.

\* reasons the backend gives with success = false
Reasons == {"No data found", "Insufficient history"}

\* the fallback text of the page
SelectPrompt == "Select a stock to view technical analysis"

pageRest == <<vars, taskVars, rankVars, bandVars>>

\* the ticker lists without repetition
Distinct(seq) ==
    \A i, j \in 1 .. Len(seq) : i # j => seq[i] # seq[j]
StockLists == {l \in UNION {[1 .. n -> Tickers] : n \in 1 .. Cardinality(Tickers)} : Distinct(l)}

\* the query of the selected ticker (disabled without one: enabled: !!ticker)
techQuery == IF selectedTicker = NoTicker THEN IdleQuery ELSE techQueries[selectedTicker]

\* useQuery's isLoading: a first fetch is under way
isLoading == techQuery.status = "pending" /\ techQuery.fetching

\* what the page renders below the stock selector
Shown ==
    IF isLoading THEN "Spinner"
    ELSE IF techQuery.status = "success" /\ techQuery.success THEN "Chart"
    ELSE IF techQuery.status = "success" /\ techQuery.error # "" THEN techQuery.error
    ELSE SelectPrompt

\* the hook observes ticker t's query: one without data is fetched (again)
Observe(queries, t) ==
    IF queries[t].status = "success" THEN queries
    ELSE [queries EXCEPT ![t] = [status |-> "pending", fetching |-> TRUE,
                                 success |-> FALSE, error |-> ""]]

\* the mentioned stocks arrive; the effect selects the first one if none is
\* selected
StocksArrive(list) ==
    /\ stocks = <<>>
    /\ stocks' = list
    /\ IF selectedTicker = NoTicker
       THEN /\ selectedTicker' = list[1]
            /\ techQueries' = Observe(techQueries, list[1])
       ELSE UNCHANGED <<selectedTicker, techQueries>>
    /\ UNCHANGED pageRest

\* the user clicks a stock button
SelectTicker(n) ==
    /\ n \in 1 .. Len(stocks)
    /\ stocks[n] # selectedTicker
    /\ selectedTicker' = stocks[n]
    /\ techQueries' = Observe(techQueries, stocks[n])
    /\ UNCHANGED <<stocks, pageRest>>

\* the backend answers ticker t's request (HTTP 200): success with the
\* technicals, or success = false with or without a reason
TechResponse(t, ok, reason) ==
    /\ techQueries[t].fetching
    /\ ok => reason = ""
    /\ techQueries' = [techQueries EXCEPT ![t] =
           [status |-> "success", fetching |-> FALSE, success |-> ok, error |-> reason]]
    /\ UNCHANGED <<stocks, selectedTicker, pageRest>>

\* ticker t's request fails: fetchAPI throws on the non-OK response
TechFailure(t) ==
    /\ techQueries[t].fetching
    /\ techQueries' = [techQueries EXCEPT ![t] =
           [status |-> "error", fetching |-> FALSE, success |-> FALSE, error |-> ""]]
    /\ UNCHANGED <<stocks, selectedTicker, pageRest>>

PageInit == Init

PageNext ==
    \/ \E list \in StockLists : StocksArrive(list)
    \/ \E n \in 1 .. Cardinality(Tickers) : SelectTicker(n)
    \/ \E t \in Tickers, ok \in BOOLEAN, reason \in Reasons \cup {""} : TechResponse(t, ok, reason)
    \/ \E t \in Tickers : TechFailure(t)

PageSpec == PageInit /\ [][PageNext]_allVars

\* ---------------------------------------------------------------------
\* The confluence ranker (its code is not part of the frontend sources; the
\* specification's section 4.5 and the ConfluenceSignal type describe it)
\* ---------------------------------------------------------------------
\* the factors a ticker's signals can be aligned in
Factors == {"RSI", "MACD", "MA-trend", "Bollinger", "sentiment", "sector momentum", "volume"}

\* score thresholds of the strength labels
StrongThreshold == 5
ModerateThreshold == 3

rankRest == <<vars, taskVars, pageVars, bandVars>>

signalStrengthAbove(score) ==
    IF score > StrongThreshold THEN "Strong"
    ELSE IF score > ModerateThreshold THEN "Moderate" ELSE "Weak"
\* signal_strength of a score
signalStrength(score) ==
    IF score >= StrongThreshold THEN "Strong"
    ELSE IF score >= ModerateThreshold THEN "Moderate" ELSE "Weak"

\* the ConfluenceSignal of a ticker whose aligned factors are al
confluenceSignal(al) ==
    [confluence_score |-> Cardinality(al),
     aligned_signals |-> al,
     signal_strength |-> signalStrength(Cardinality(al))]

\* a ticker comes with any set of aligned factors
RankInit ==
    /\ ChartIdle /\ TaskIdle /\ PageIdle /\ BandsIdle
    /\ aligned \in SUBSET Factors
    /\ ranked = NoSignal

\* the ranker computes the ticker's signal
Rank ==
    /\ ranked = NoSignal
    /\ ranked' = confluenceSignal(aligned)
    /\ UNCHANGED <<aligned, rankRest>>

RankNext == Rank

RankSpec == RankInit /\ [][RankNext]_allVars

\* ---------------------------------------------------------------------
\* computeBB on a flat series, in rounded arithmetic
\* ---------------------------------------------------------------------
\* prices as the API sends them: decimal numbers with one fractional digit,
\* read into the nearest representable number
Ticks == 10 .. 49
Quote(t) == Fl(Norm(t, 10))

\* the lengths of the series: one and two full windows' ends
MaxBars == BBWindow + 1

FlatCloses(t, n) == [k \in 1 .. n |-> Quote(t)]

\* a flat series of at least one full window arrives
BandInit ==
    /\ ChartIdle /\ TaskIdle /\ PageIdle /\ RankIdle
    /\ \E t \in Ticks, n \in BBWindow .. MaxBars : candles = FlatCloses(t, n)
    /\ bands = NoBB

\* the chart computes the bands of the series
ComputeBands ==
    /\ bands = NoBB
    /\ bands' = computeBBRounded(candles, BBWindow, BBMult)
    /\ UNCHANGED <<candles, vars, taskVars, pageVars, rankVars>>

BandNext == ComputeBands

BandSpec == BandInit /\ [][BandNext]_allVars

\* ---------------------------------------------------------------------
\* Properties
\* ---------------------------------------------------------------------
\* an explicit absent marker (null): no number
Absent == <<0, -1>>
Fifty == <<50, 1>>
Sign(v) == Sgn(v[1])
Rendered == Len(data) > 0
Flat(d) == \A n \in 1 .. Len(d) : d[n] = d[1]
StrictlyIncreasing(d) == \A n \in 1 .. Len(d) - 1 : d[n] < d[n + 1]
StrictlyDecreasing(d) == \A n \in 1 .. Len(d) - 1 : d[n] > d[n + 1]

\* every index below `from` holds the absent marker
AbsentBelow(vals, from) == \A i \in Idx(vals) : i < from => At(vals, i) = Absent

\* C1: in the output of every rolling function, each position that cannot yet
\* be computed (index < period-1 for EMA and Bollinger, index < period for RSI,
\* index < 26-1 for the MACD line, and so every position of a too short input)
\* holds the absent marker and never a number such as 0.
C1_PaddingIsAbsent ==
    /\ AbsentBelow(ema20, Ema20Period - 1)
    /\ AbsentBelow(ema50, Ema50Period - 1)
    /\ AbsentBelow(bb.upper, BBPeriod - 1)
    /\ AbsentBelow(bb.lower, BBPeriod - 1)
    /\ AbsentBelow(rsiValues, RsiPeriod)
    /\ AbsentBelow(macdData.macd, SlowPeriod - 1)

\* reference for C2: the up-move (gain) or down-move (loss) of bar i
RefMove(c, i, up) ==
    LET d == RSub(At(c, i), At(c, i - 1))
    IN  IF up THEN (IF RPos(d) THEN d ELSE Zero)
        ELSE (IF RNegative(d) THEN RNeg(d) ELSE Zero)

RECURSIVE RefMoveSum(_, _, _)
RefMoveSum(c, j, up) ==
    IF j = 0 THEN Zero ELSE RAdd(RefMoveSum(c, j - 1, up), RefMove(c, j, up))

RECURSIVE RefWilder(_, _, _, _)
\* simple average of the first p moves at index p, Wilder's update afterwards
RefWilder(c, p, i, up) ==
    IF i = p THEN RDiv(RefMoveSum(c, p, up), R(p))
    ELSE RDiv(RAdd(RMul(RefWilder(c, p, i - 1, up), R(p - 1)), RefMove(c, i, up)), R(p))

RefRsi(g, l) ==
    IF l = Zero THEN Hundred
    ELSE RSub(Hundred, RDiv(Hundred, RAdd(One, RDiv(g, l))))

\* C2: for closes of length >= period+1, the RSI at index `period` comes from
\* the simple averages of the first `period` gains and losses, at every later
\* index from the Wilder update avg = (avg*(period-1) + current)/period; the
\* value is 100 - 100/(1 + avgGain/avgLoss), and exactly 100 when avgLoss = 0.
C2_RsiIsWilder ==
    (showRSI /\ Len(data) >= RsiPeriod + 1) =>
        \A i \in RsiPeriod .. Len(data) - 1 :
            LET g == RefWilder(Closes(data), RsiPeriod, i, TRUE)
                l == RefWilder(Closes(data), RsiPeriod, i, FALSE)
            IN  /\ At(rsiValues, i) = RefRsi(g, l)
                /\ (l = Zero => At(rsiValues, i) = Hundred)

\* C2 witness: a series with gains and losses, past the first Wilder update
C2_Witness ==
    /\ showRSI /\ Len(data) >= RsiPeriod + 2
    /\ At(rsiValues, Len(data) - 1) \notin {Zero, Hundred}
    /\ At(rsiValues, RsiPeriod) \notin {Zero, Hundred}
    /\ RefWilder(Closes(data), RsiPeriod, Len(data) - 1, TRUE)
         # RefWilder(Closes(data), RsiPeriod, Len(data) - 2, TRUE)

\* the defined part of the MACD line: indices >= 26-1
DefinedMacd == SubSeq(macdData.macd, MacdStart + 1, Len(macdData.macd))

\* C3: for closes long enough for the signal line to start (>= 34), the signal
\* at every index >= 33 equals the 9-period EMA of the MACD line over its
\* defined values only: computeEMA applied to the MACD sequence with its
\* undefined prefix removed (seeded with the mean of MACD[25..33]).
C3_SignalIsEmaOfDefinedMacd ==
    (showMACD /\ Len(data) >= SignalStart + 1) =>
        \A i \in SignalStart .. Len(data) - 1 :
            At(macdData.signal, i) = At(computeEMA(DefinedMacd, SignalPeriod), i - MacdStart)

\* C4: for an all-flat close series of length >= period+1 the RSI is absent
\* or neutral at every index (the marker, the padding, or a value between 30
\* and 70), never an extreme, and no division by zero has happened.
C4_FlatRsiIsNeutral ==
    (showRSI /\ Flat(data) /\ Len(data) >= RsiPeriod + 1) =>
        \A i \in Idx(rsiValues) :
            LET v == At(rsiValues, i)
            IN  \/ v = Absent
                \/ v = Zero /\ i < RsiPeriod
                \/ IsFinite(v) /\ RLt(R(30), v) /\ RLt(v, R(70))

RECURSIVE RefSum(_, _)
\* c[0] + ... + c[n-1]
RefSum(c, n) == IF n = 0 THEN Zero ELSE RAdd(At(c, n - 1), RefSum(c, n - 1))

\* the EMA law of C5 for one output array and its period
EmaLaw(ema, c, p) ==
    Len(c) >= p =>
        /\ At(ema, p - 1) = RDiv(RefSum(c, p), R(p))
        /\ \A i \in p .. Len(c) - 1 :
              At(ema, i) = RAdd(RMul(At(c, i), RDiv(R(2), R(p + 1))),
                                RMul(At(ema, i - 1), RSub(One, RDiv(R(2), R(p + 1)))))

\* C5: for closes of length >= period, computeEMA's value at index period-1 is
\* the arithmetic mean of closes[0..period-1], and at every later index i it is
\* closes[i]*k + ema[i-1]*(1-k) with k = 2/(period+1).
C5_EmaSeedAndRecurrence ==
    Rendered =>
        /\ EmaLaw(ema20, Closes(data), Ema20Period)
        /\ EmaLaw(ema50, Closes(data), Ema50Period)

\* C5 witness: a non-flat series that has passed the seed of the longer EMA
C5_Witness ==
    /\ Len(data) > Ema50Period
    /\ ~Flat(data)
    /\ At(ema50, Len(data) - 1) # At(ema50, Ema50Period - 1)
    /\ At(ema20, Ema20Period - 1) # R(data[Ema20Period])

\* C6: for every close sequence, also an empty one or one shorter than the
\* period, computeEMA, computeRSI, both computeBB bands and the three
\* computeMACD outputs each have exactly the input's length.
C6_SameLength ==
    LET c == Closes(data)
        n == Len(data)
    IN  /\ Len(computeEMA(c, Ema20Period)) = n
        /\ Len(computeEMA(c, Ema50Period)) = n
        /\ Len(computeRSI(c, RsiPeriod)) = n
        /\ Len(computeBB(c, BBPeriod, BBMult).upper) = n
        /\ Len(computeBB(c, BBPeriod, BBMult).lower) = n
        /\ Len(computeMACD(c).macd) = n
        /\ Len(computeMACD(c).signal) = n
        /\ Len(computeMACD(c).histogram) = n
        /\ Rendered => /\ Len(ema20) = n /\ Len(ema50) = n
                       /\ Len(bb.upper) = n /\ Len(bb.lower) = n
        /\ (Rendered /\ showRSI) => Len(rsiValues) = n
        /\ (Rendered /\ showMACD) =>
              /\ Len(macdData.macd) = n /\ Len(macdData.signal) = n
              /\ Len(macdData.histogram) = n

\* C6 witness: every function has run on an input shorter than its window
C6_Witness ==
    /\ Len(data) = 1 /\ showRSI /\ showMACD
    /\ Len(rsiValues) = 1 /\ Len(macdData.signal) = 1 /\ Len(ema50) = 1

\* C7: at every index histogram = macd - signal; so between two adjacent bars
\* the histogram changes sign exactly when MACD - Signal changes sign.
C7_HistogramIsDifference ==
    (Rendered /\ showMACD) =>
        /\ \A i \in Idx(macdData.histogram) :
              At(macdData.histogram, i) = RSub(At(macdData.macd, i), At(macdData.signal, i))
        /\ \A i \in 0 .. Len(data) - 2 :
              (Sign(At(macdData.histogram, i)) # Sign(At(macdData.histogram, i + 1)))
              <=> (Sign(RSub(At(macdData.macd, i), At(macdData.signal, i)))
                     # Sign(RSub(At(macdData.macd, i + 1), At(macdData.signal, i + 1))))

\* C7 witness: a crossover, the histogram going from one sign to the other
C7_Witness ==
    /\ showMACD
    /\ \E i \in 0 .. Len(data) - 2 :
          /\ i >= MacdStart
          /\ Sign(At(macdData.histogram, i)) * Sign(At(macdData.histogram, i + 1)) = -1
          /\ At(macdData.signal, i) # Zero

\* C8: every RSI value at an index >= period lies in [0, 100]; on a strictly
\* increasing series the RSI never decreases and never exceeds 100.
C8_RsiBounded ==
    (showRSI /\ Len(data) >= RsiPeriod + 1) =>
        /\ \A i \in RsiPeriod .. Len(data) - 1 :
              /\ IsFinite(At(rsiValues, i))
              /\ RLe(Zero, At(rsiValues, i))
              /\ RLe(At(rsiValues, i), Hundred)
        /\ StrictlyIncreasing(data) =>
              \A i \in RsiPeriod .. Len(data) - 2 :
                  RLe(At(rsiValues, i), At(rsiValues, i + 1))

\* C8 witness: a strictly increasing series with two computed RSI values
C8_Witness ==
    /\ showRSI /\ StrictlyIncreasing(data) /\ Len(data) >= RsiPeriod + 2
    /\ At(rsiValues, Len(data) - 1) = Hundred

\* a plotted line has a point at bar i
HasPoint(series, i) == \E n \in 1 .. Len(series) : series[n].time = i
\* a plotted line has points at exactly the bars from index `from` on
PlottedFrom(series, from) == \A i \in Idx(data) : HasPoint(series, i) <=> i >= from

\* C9: each indicator has values exactly according to its own window: RSI iff
\* n >= period+1 (first at index period), EMA20 and Bollinger iff n >= 20
\* (first at index 19), EMA50 iff n >= 50, independently of one another.
C9_DefinedByOwnWindow ==
    Rendered =>
        /\ PlottedFrom(ema20S, Ema20Period - 1)
        /\ PlottedFrom(ema50S, Ema50Period - 1)
        /\ PlottedFrom(bbUS, BBPeriod - 1)
        /\ PlottedFrom(bbLS, BBPeriod - 1)
        /\ showRSI => PlottedFrom(rsiS, RsiPeriod)

\* C10: with fewer than 26+9 closes the MACD indicator yields no value for the
\* MACD line, the signal line and the histogram; no histogram value is plotted
\* at an index where the signal line is not yet defined.
C10_NoMacdBelowMinimum ==
    (Rendered /\ showMACD) =>
        /\ Len(data) < SlowPeriod + SignalPeriod =>
              macdLine = <<>> /\ signalLine = <<>> /\ histS = <<>>
        /\ \A i \in Idx(data) : HasPoint(histS, i) => HasPoint(signalLine, i)

\* the line has, at bar i, a point carrying the computed value vals[i]
PlotsValue(series, vals, i) ==
    \E n \in 1 .. Len(series) : series[n].time = i /\ series[n].value = At(vals, i)

\* the line shows the computed value at exactly the bars from index `from` on
ShowsComputed(series, vals, from) ==
    \A i \in Idx(vals) :
        /\ i >= from => PlotsValue(series, vals, i)
        /\ i < from => ~HasPoint(series, i)

\* In exact arithmetic the bands of a flat series of whole-number closes
\* equal the close: the mean is the close and every deviation is 0.
ExactFlatBandsEqualClose ==
    (Flat(data) /\ Len(data) >= BBPeriod) =>
        \A i \in (BBPeriod - 1) .. (Len(data) - 1) :
            /\ At(bb.upper, i) = At(Closes(data), i)
            /\ At(bb.lower, i) = At(Closes(data), i)

\* C11: for an all-flat close series of length >= 20, at every index >= 19 the
\* upper and the lower Bollinger band computeBB returns both equal the close
\* (variance 0, width 0), and every band is a finite number (nothing was
\* divided by zero).
C11_FlatBandsEqualCloseRounded ==
    bands # NoBB =>
        \A i \in (BBWindow - 1) .. (Len(candles) - 1) :
            /\ IsFinite(At(bands.upper, i)) /\ IsFinite(At(bands.lower, i))
            /\ At(bands.upper, i) = At(candles, i)
            /\ At(bands.lower, i) = At(candles, i)

\* the division-by-zero half of C11 alone
FlatBandsFinite ==
    bands # NoBB =>
        \A i \in Idx(candles) :
            IsFinite(At(bands.upper, i)) /\ IsFinite(At(bands.lower, i))

\* the sum of equal closes that rounding leaves equal to period * close gives
\* bands equal to the close: some flat series do satisfy C11
SomeFlatBandsEqualClose ==
    /\ bands # NoBB
    /\ \A i \in (BBWindow - 1) .. (Len(candles) - 1) :
           At(bands.upper, i) = At(candles, i) /\ At(bands.lower, i) = At(candles, i)

\* C12: the padding zero never changes what the chart shows: each plotted line
\* (EMA20, EMA50, both Bollinger bands, RSI) has a point for exactly the bars
\* at which the indicator is computable (index >= period-1, for RSI index >=
\* period), whatever the computed value is, a computed 0 included.
C12_PlotsExactlyComputedBars ==
    Rendered =>
        /\ ShowsComputed(ema20S, ema20, Ema20Period - 1)
        /\ ShowsComputed(ema50S, ema50, Ema50Period - 1)
        /\ ShowsComputed(bbUS, bb.upper, BBPeriod - 1)
        /\ ShowsComputed(bbLS, bb.lower, BBPeriod - 1)
        /\ showRSI => ShowsComputed(rsiS, rsiValues, RsiPeriod)

\* ---------------------------------------------------------------------
\* Properties of the task hook (TaskSpec)
\* ---------------------------------------------------------------------
\* the last poll response for the current task says the task is over
Finished == taskData # NoData /\ taskData.status # "running"

\* C13: when the hook is mounted again with the same storage key in the same
\* session (the page is opened again, or the tab reloaded), it has the task id
\* the unmounted hook held; after a navigation it exposes the task's status,
\* result and error as before, after a reload the task's query is fetched at
\* once, and a task not known to be over is polled again.
C13_RemountRestoresTask ==
    [][/\ Mount => /\ taskId' = taskId
                   /\ status' = status /\ result' = result /\ error' = error
       /\ Reload => /\ taskId' = taskId
                    /\ taskId # Null => pollTimer' = [id |-> taskId, delay |-> 0]
       /\ ((Mount \/ Reload) /\ taskId # Null /\ ~Finished') => pollTimer'.id = taskId
      ]_allVars

\* C13 witness: a mounted hook that restored its task id from sessionStorage
\* and shows that task's result
C13_Witness ==
    /\ mounted /\ restored # Null /\ taskId = restored
    /\ isComplete /\ result = taskId

\* C16: with a task id set, a poll of that task is scheduled exactly while no
\* response has been received or the last one said "running": the first one
\* at once, every later one after pollInterval; once a response with another
\* status is there, none is scheduled.  Without a task id nothing is polled.
C16_PollsUntilFinished ==
    mounted =>
        /\ taskId = Null => pollTimer = NoTimer
        /\ (taskId # Null /\ Finished) => pollTimer = NoTimer
        /\ (taskId # Null /\ ~Finished) =>
              /\ pollTimer.id = taskId
              /\ pollTimer.delay \in {0, pollInterval}
              /\ taskData # NoData => pollTimer.delay = pollInterval

\* C16 witness: the task's poll answered "running" and then with a final
\* status, after which no poll is scheduled
C16_Witness ==
    /\ mounted /\ taskId # Null
    /\ taskData.status \in {"complete", "error", "not_found"}
    /\ pollTimer = NoTimer

\* C17: a task id that sessionStorage holds under the key of some params was
\* returned by a start request that carried exactly those params.
C17_StoredTaskMatchesParams ==
    \A p \in ParamsSet :
        getItem(sessionStorage, storageKey(p)) # Null =>
            tasks[getItem(sessionStorage, storageKey(p))] = p

\* C18: a start request of the mounted hook carries the params most recently
\* passed to setParams (the ones sessionStorage records, the defaults when
\* there are none); a quick-scan click makes these the clicked strategy with
\* the watchlist and min_matches shown, and where it restarts at once the
\* request leaves with them.
C18_RequestCarriesLatestParams ==
    [][/\ (Len(tasks') > Len(tasks) /\ Len(tasks') \in inflight') =>
              tasks'[Len(tasks')] = restoreParams(sessionStorage')
       /\ \A q \in Strategies :
              /\ (QuickScanRestart(q) \/ QuickScanDeferred(q)) =>
                     restoreParams(sessionStorage') = [params EXCEPT !.strategy = q]
              /\ QuickScanRestart(q) =>
                     tasks'[Len(tasks')] = [params EXCEPT !.strategy = q]
      ]_allVars

\* C18 witness: a request went out with a strategy chosen after the mount
C18_Witness ==
    /\ mounted /\ tasks # <<>>
    /\ tasks[Len(tasks)] # defaultParams
    /\ Len(tasks) \in inflight

\* C19: isRunning is true exactly when the reported status is "running".
C19_RunningIffStatusRunning ==
    mounted => (isRunning <=> status = "running")

\* C20: a result or an error the hook exposes is the current task's own, and
\* without a task id nothing is exposed; when the task id changes (reset,
\* restart, a start response) no data is exposed until a poll of the new id
\* has answered.
C20_ExposesCurrentTaskOnly ==
    [][/\ mounted' =>
              /\ result' # Null => result' = taskId'
              /\ error' # Null => error' = taskId'
              /\ taskId' = Null => (~isComplete' /\ ~isError' /\ status' = "idle")
       /\ (mounted' /\ taskId' # taskId) => taskData' = NoData
      ]_allVars

\* C20 witness: after a restart the hook shows the second task's result while
\* the first task's result is still in the query cache
C20_Witness ==
    /\ mounted /\ taskId = 2 /\ isComplete /\ result = 2
    /\ queryData[<<"task", 1>>].status = "complete"

\* C21: when start or restart is invoked again while an earlier start request
\* is pending, the task id the hook ends with once every pending request has
\* resolved is the one returned for the most recently invoked request, in
\* whatever order the responses arrive.  Task ids are numbered in the order
\* the requests were invoked, so the response that resolves the last pending
\* request never replaces the id of a request invoked after its own.
C21_LatestStartWins ==
    [][\A r \in inflight :
          (StartResponse(r) /\ inflight' = {} /\ startTimers = {}) => ~(taskId > r)
      ]_allVars

\* the backend has answered a poll of the current task with status st
Answered(st) == mounted /\ taskId # Null /\ taskData.status = st

PollsFailing == mounted /\ taskId # Null /\ taskId \in queryFailed

\* C23: when the polls of the current task fail at the transport level, the
\* hook reports the failure: isError is true, error is not null, and the
\* status is not "running".
C23_TransportFailureIsReported ==
    PollsFailing => (isError /\ error # Null /\ status # "running")

\* ---------------------------------------------------------------------
\* Properties of the technical page (PageSpec)
\* ---------------------------------------------------------------------
\* the backend answered the selected ticker's request with success = false
\* and a reason
BackendRefused ==
    /\ selectedTicker # NoTicker /\ techQuery.status = "success"
    /\ ~techQuery.success /\ techQuery.error # ""
\* the selected ticker's request itself failed
RequestFailed == selectedTicker # NoTicker /\ techQuery.status = "error"

\* C14: the page shows three different things for the three outcomes: the
\* backend's reason when it answered success = false with one, something
\* that is neither that reason nor the selection prompt when the request
\* itself failed, and the selection prompt when no ticker is selected.
C14_OutcomesShownDistinctly ==
    /\ BackendRefused => (Shown = techQuery.error /\ Shown # SelectPrompt)
    /\ RequestFailed => (Shown # SelectPrompt /\ Shown \notin Reasons)
    /\ selectedTicker = NoTicker => Shown = SelectPrompt

\* ---------------------------------------------------------------------
\* Properties of the confluence ranker (RankSpec)
\* ---------------------------------------------------------------------
RECURSIVE CountAligned(_, _)
\* one point for each factor of fs that is among the aligned ones
CountAligned(fs, al) ==
    IF fs = {} THEN 0
    ELSE LET f == CHOOSE x \in fs : TRUE
         IN  (IF f \in al THEN 1 ELSE 0) + CountAligned(fs \ {f}, al)

====
